---------------------------- MODULE Spec2Model ----------------------------
(***************************************************************************)
(* XiSort (src/core.py): external sorter for streams of IEEE-754 doubles.  *)
(*                                                                         *)
(* Scaling.  TLC integers are 32 bits wide, so every 64-bit quantity of    *)
(* the program is modelled at a reduced width with the same layout:        *)
(*   - a double is a 6-bit pattern: 1 sign bit, 2 exponent bits, 3         *)
(*     mantissa bits; exponent 3 is inf (mantissa 0) or NaN, exponent 0 is *)
(*     zero or subnormal, as in binary64; the value of a finite pattern is *)
(*     Num(b)/16, so 1.0 is the pattern 16;                                *)
(*   - a sort key is a 6-bit unsigned integer, MASK is its top bit and the *)
(*     five sentinels are the codes 2^6-8 .. 2^6-4, as 2^64-8 .. 2^64-4;   *)
(*   - a word of the xoshiro generator is 8 bits wide;                     *)
(*   - sizes are counted in bytes as the program counts them (a record is  *)
(*     32 bytes, a tail element 8, a tag 16); the tail's size thresholds   *)
(*     are scaled down to a few elements.                                  *)
(* blake3 is a library outside the repository: a digest is the symbolic    *)
(* term <<"blake3", data>> (no two different payloads share a digest).     *)
(***************************************************************************)
EXTENDS Integers, Sequences, FiniteSets, TLC

\* ------------------------------------------------------------------ bounds
\* Longest input sequence.
MaxLen == 3

\* ------------------------------------------------------ doubles (scaled)
\* Top bit of a pattern (the sign bit of a double, bit 63 of a key) and the
\* number of mantissa values.
MASK == 32
MANT == 8
FMOD == 2 * MASK

\* The pattern with sign s, exponent e and mantissa m.
F(s, e, m) == s * MASK + e * MANT + m
NEG1 == F(1, 2, 0)    \* -1.0
NEG0 == F(1, 0, 0)    \* -0.0
POS0 == F(0, 0, 0)    \* +0.0
POS1 == F(0, 2, 0)    \* +1.0
POS15 == F(0, 2, 4)   \* +1.5
PINF == F(0, 3, 0)    \* +inf
NINF == F(1, 3, 0)    \* -inf
QNAN == F(0, 3, 4)    \* NaN

signbit(b) == b >= MASK
ExpOf(b) == (b % MASK) \div MANT
isnan(b) == ExpOf(b) = 3 /\ b % MANT # 0
isinf(b) == ExpOf(b) = 3 /\ b % MANT = 0
isneginf(b) == isinf(b) /\ signbit(b)
isposinf(b) == isinf(b) /\ ~signbit(b)
isfinite(b) == ExpOf(b) # 3

\* Magnitude of a finite pattern in units of 1/16.
Mag(b) ==
  LET e == ExpOf(b)
      m == b % MANT
  IN  IF e = 0 THEN m ELSE IF e = 1 THEN MANT + m ELSE 2 * (MANT + m)

\* Numeric value of a finite pattern in units of 1/16 (-0.0 and +0.0 are both 0).
Num(b) == IF signbit(b) THEN 0 - Mag(b) ELSE Mag(b)

iszero(b) == isfinite(b) /\ Mag(b) = 0

\* ------------------------------------------------------------- ieee_key
SENT == 56
K_NEGINF == SENT + 0
K_POSINF == SENT + 1
K_NEG0 == SENT + 2
K_POS0 == SENT + 3
K_NAN == SENT + 4

ieee_key(a) ==
  LET neg == (a \div MASK) % 2 # 0
      k0 == IF neg THEN (FMOD - 1) - a ELSE a + MASK   \* ~bits ; bits | MASK
      k1 == IF isneginf(a) THEN K_NEGINF ELSE k0
      k2 == IF isposinf(a) THEN K_POSINF ELSE k1
      k3 == IF iszero(a) /\ signbit(a) THEN K_NEG0 ELSE k2
      k4 == IF iszero(a) /\ ~signbit(a) THEN K_POS0 ELSE k3
  IN  IF isnan(a) THEN K_NAN ELSE k4

\* ------------------------------------------------- _R (xoshiro256**)
\* Bits of one generator word (64 in the program).
RBITS == 8
RMOD == 2 ^ RBITS

RECURSIVE BitOp(_, _, _)
\* Bitwise combination of two naturals: op is "xor" or "or".
BitOp(op, a, b) ==
  IF a = 0 /\ b = 0 THEN 0
  ELSE LET x == a % 2
           y == b % 2
           z == IF op = "xor" THEN (x + y) % 2 ELSE IF x + y > 0 THEN 1 ELSE 0
       IN  z + 2 * BitOp(op, a \div 2, b \div 2)

Xor(a, b) == BitOp("xor", a, b)

\* _rotl: the left part is masked, the right part is not (x may exceed a word).
rotl(x, k) == BitOp("or", (x * 2 ^ k) % RMOD, x \div 2 ^ (RBITS - k))

\* SplitMix step of _R.__init__; multipliers and increments are the program's
\* modulo the word, shifts are scaled to the word.
sm64(x0) ==
  LET x1 == (x0 + 21) % RMOD
      x2 == (Xor(x1, x1 \div 2 ^ 4) * 185) % RMOD
      x3 == (Xor(x2, x2 \div 2 ^ 3) * 235) % RMOD
  IN  Xor(x3, x3 \div 2 ^ 4)

\* _R.__init__: the four state words.
R_init(sd) == << sm64(sd), sm64(sd + 1), sm64(sd + 2), sm64(sd + 3) >>

\* _R._next: [res, s] the value returned and the state left.
R_next(s) ==
  LET res == (rotl(s[2] * 5, 1) * 9) % RMOD
      t   == (s[2] * 2 ^ 2) % RMOD
      s2a == Xor(s[3], s[1])
      s3a == Xor(s[4], s[2])
      s1a == Xor(s[2], s2a)
      s0a == Xor(s[1], s3a)
      s2b == Xor(s2a, t)
      s3b == rotl(s3a, 6)
  IN  [res |-> res, s |-> << s0a, s1a, s2b, s3b >>]

RECURSIVE R_rand(_, _)
\* _R.rand(n): n draws, each shifted right and scaled into [0,1); the model keeps
\* the shifted integer (the scaling by a power of two keeps the order).
R_rand(s, n) ==
  IF n = 0 THEN [a |-> << >>, s |-> s]
  ELSE LET d == R_next(s)
           rest == R_rand(d.s, n - 1)
       IN  [a |-> << d.res \div 2 >> \o rest.a, s |-> rest.s]

RECURSIVE R_below(_, _)
\* The rejection loop of randint and shuffle: a draw below lim, without bias.
R_below(s, lim) ==
  LET limit == (RMOD \div lim) * lim
      d == R_next(s)
  IN  IF d.res < limit THEN [res |-> d.res % lim, s |-> d.s]
      ELSE R_below(d.s, lim)

Swap(a, i, j) == [a EXCEPT ![i] = a[j], ![j] = a[i]]

RECURSIVE ShuffleFrom(_, _, _)
\* The loop of _R.shuffle from (1-based) position i down to 2.
ShuffleFrom(a, s, i) ==
  IF i < 2 THEN [a |-> a, s |-> s]
  ELSE LET d == R_below(s, i)
       IN  ShuffleFrom(Swap(a, i, d.res + 1), d.s, i - 1)

\* _R.shuffle(a): Fisher-Yates in place.
R_shuffle(a, s) == ShuffleFrom(a, s, Len(a))

\* -------------------------------------------------------------- _metric
\* epsilon as the fraction EPS_NUM / EPS_DEN (pi * epsilon < 1).
EPS_NUM == 1
EPS_DEN == 8

\* np.finfo(float64).tiny: the smallest normal magnitude, in units of 1/16.
TINY == Mag(F(0, 1, 0))

RECURSIVE MinNum(_, _)
MinNum(a, i) ==
  IF i = Len(a) THEN Num(a[i])
  ELSE LET m == MinNum(a, i + 1) IN IF Num(a[i]) < m THEN Num(a[i]) ELSE m

RECURSIVE MaxNum(_, _)
MaxNum(a, i) ==
  IF i = Len(a) THEN Num(a[i])
  ELSE LET m == MaxNum(a, i + 1) IN IF Num(a[i]) > m THEN Num(a[i]) ELSE m

\* The pattern of the double nearest to norm + eps * cos(pi * norm) for
\* norm = p / q in [0, 1].  cos(pi * x) is Bhaskara's rational approximation
\* (1 - 4x^2) / (1 + x^2) on [0, 1/2], mirrored on [1/2, 1]; the arithmetic is
\* exact and the result is rounded once to the grid of doubles in [0, 1],
\* which is k / 16 with pattern k.
Curve(p, q) ==
  LET lowhalf == 2 * p <= q
      pp  == IF lowhalf THEN p ELSE q - p
      D   == q * q + pp * pp
      N0  == q * q - 4 * pp * pp
      N   == IF lowhalf THEN N0 ELSE 0 - N0
      num == 16 * p * EPS_DEN * D + 16 * EPS_NUM * N * q
      den == q * EPS_DEN * D
  IN  (2 * num + den) \div (2 * den)

\* XiSort._metric on the array a of finite doubles: STRICT is the identity,
\* CURVED normalises by the array's own min and max.
metric(md, a) ==
  IF md = "STRICT" THEN a
  ELSE LET lo == MinNum(a, 1)
           hi == MaxNum(a, 1)
           span == hi - lo
       IN  [i \in 1..Len(a) |->
              IF span <= TINY THEN Curve(0, 1) ELSE Curve(Num(a[i]) - lo, span)]

\* ------------------------------------------------------------- records
\* Bytes of one record (REC_F, REC_I), of one tail element (F64), of a tag.
REC_SIZE == 32
F64_SIZE == 8
TAG_SIZE == 16

\* Lexicographic order on (key, tie, seq): rec.sort(order=...) and the merge key.
RecLess(a, b) ==
  \/ a.key < b.key
  \/ a.key = b.key /\ a.tie < b.tie
  \/ a.key = b.key /\ a.tie = b.tie /\ a.seq < b.seq

RECURSIVE Insert(_, _)
Insert(r, s) ==
  IF s = << >> THEN << r >>
  ELSE IF RecLess(r, Head(s)) THEN << r >> \o s
  ELSE << Head(s) >> \o Insert(r, Tail(s))

\* A chunk written without sorting its records.
NoSort(s) == s

RECURSIVE SortRecs(_)
\* rec.sort(order=("key", "tie", "seq")).
SortRecs(s) == IF s = << >> THEN << >> ELSE Insert(Head(s), SortRecs(Tail(s)))

\* blake3.blake3(data).digest(length=16): a symbolic digest.
blake3(data) == << "blake3", data >>
NoTag == << >>

\* A mask that tests isnan alone, so that infinities stay among the finite values.
FiniteNotNan(a) == SelectSeq(a, LAMBDA v : ~isnan(v))

\* arr[mask] and arr[~mask].
NonFinite(a) == SelectSeq(a, LAMBDA v : ~isfinite(v))
Finite(a) == SelectSeq(a, LAMBDA v : isfinite(v))

\* Scratch file names: _det_name(wd, i), tail.tmp, tail.fin; None for unset.
ChunkName(i) == << "c", i >>
TailTmp == << "tail.tmp", 0 >>
TailFin == << "tail.fin", 0 >>
None == << "None", 0 >>

\* os.path.getsize of a scratch file.
ItemSize(n) == IF n[1] = "c" THEN REC_SIZE ELSE F64_SIZE
FileSize(fs, n) ==
  Len(fs[n].payload) * ItemSize(n) + (IF fs[n].tag = NoTag THEN 0 ELSE TAG_SIZE)

\* XiSort._budget: the counter after the update, and whether it raises.
BudgetDisk(d, delta) == IF d + delta > 0 THEN d + delta ELSE 0
BudgetRaises(d, delta, mx) == BudgetDisk(d, delta) > mx

\* ---------------------------------------------------------------- state
VARIABLES
  X, chunk_size,        \* the arguments of stream_sort: the input, the chunk size
  mode, tie, nan, max, integrity, soft,   \* XiSort's configuration fields
  rng, disk, idx, gseq, \* XiSort's mutable fields (rng is _R.s)
  itr, arr,             \* the input not yet pulled; the chunk buffer buf[:i]
  chunks, tail_tmp, tail_fin, h_tail,     \* locals of stream_sort
  files, wd,            \* the files of the working directory; whether it exists
  pc,                   \* position in stream_sort
  rd, primed, pending,  \* the readers under heapq.merge
  tbuf,                 \* the values _tail_emit has still to yield
  susp,                 \* the generator is suspended at a yield
  out,                  \* the values yielded so far
  err, cleanup_err,     \* the error raised while streaming / by the finally block
  warned,               \* warnings issued
  todo,                 \* set(paths_to_remove) not yet visited
  flipped,              \* a byte of a chunk file was changed after it was written
  merged,               \* history: the records the merge has delivered, in order
  seed,                 \* the seed argument of XiSort(...)
  written,              \* history: the bytes this run wrote under each file name
  prev                  \* what an earlier run of the same caller left to compare with

cfgvars == << X, chunk_size, mode, tie, nan, max, integrity, soft, seed >>
vars == << X, chunk_size, mode, tie, nan, max, integrity, soft, seed, rng, disk, idx,
           gseq, itr, arr, chunks, tail_tmp, tail_fin, h_tail, files, wd, pc, rd,
           primed, pending, tbuf, susp, out, err, cleanup_err, warned, todo,
           flipped, merged, written, prev >>

\* No earlier run.
NoRun == [kind |-> "none"]

\* The files fs laid over the history w: what was written under each name.
Overlay(w, fs) ==
  [n \in DOMAIN w \cup DOMAIN fs |-> IF n \in DOMAIN fs THEN fs[n] ELSE w[n]]

\* self._maxseq, scaled from 2^64 - 1.
maxseq == 3

\* The largest payload (bytes) _tail_emit loads whole, and the reservoir's
\* capacity (bytes), scaled from 512 MiB and 64 MiB.
TAIL_WHOLE_MAX == 16
CAP_BYTES == 8

RECURSIVE SeqsUpTo(_, _)
\* All sequences over S of length at most n.
SeqsUpTo(S, n) ==
  IF n = 0 THEN { << >> }
  ELSE LET shorter == SeqsUpTo(S, n - 1)
       IN  shorter \cup { Append(s, v) : s \in { t \in shorter : Len(t) = n - 1 }, v \in S }

\* The state after XiSort(...) was constructed and stream_sort(itr, chunk_size)
\* was called: nothing has run yet, the working directory exists and is empty.
InitWith(Xs, sizes, modes, ties, nans, maxes, integs, softs, seeds) ==
  /\ X \in Xs
  /\ chunk_size \in sizes
  /\ mode \in modes
  /\ tie \in ties
  /\ nan \in nans
  /\ max \in maxes
  /\ integrity \in integs
  /\ soft \in softs
  /\ seed \in seeds
  /\ rng = R_init(seed)
  /\ disk = 0
  /\ idx = 0
  /\ gseq = 0
  /\ itr = X
  /\ arr = << >>
  /\ chunks = << >>
  /\ tail_tmp = None
  /\ tail_fin = None
  /\ h_tail = << >>
  /\ files = << >>
  /\ wd = TRUE
  /\ pc = "fill"
  /\ rd = << >>
  /\ primed = FALSE
  /\ pending = 0
  /\ tbuf = << >>
  /\ susp = FALSE
  /\ out = << >>
  /\ err = "none"
  /\ cleanup_err = "none"
  /\ warned = {}
  /\ todo = {}
  /\ flipped = FALSE
  /\ merged = << >>
  /\ written = << >>
  /\ prev = NoRun

\* ------------------------------------------------- stream_sort: chunks
\* Lines 167-179: pull up to chunk_size values; none left ends the loop.
FillChunk ==
  /\ pc = "fill"
  /\ LET i == IF Len(itr) < chunk_size THEN Len(itr) ELSE chunk_size
         a == SubSeq(itr, 1, i)
     IN  /\ arr' = a
         /\ itr' = SubSeq(itr, i + 1, Len(itr))
         /\ pc' = IF i = 0 THEN "seal"
                  ELSE IF NonFinite(a) # << >> THEN "tail_append"
                  ELSE "chunk_write"
  /\ UNCHANGED << cfgvars, rng, disk, idx, gseq, chunks, tail_tmp, tail_fin, h_tail,
                  files, wd, rd, primed, pending, tbuf, susp, out, err,
                  cleanup_err, warned, todo, flipped, merged,
                  written, prev >>

\* Lines 181-189: the chunk's non-finite values, shuffled under nan_shuffle,
\* are hashed and appended to tail.tmp.
TailAppend ==
  /\ pc = "tail_append"
  /\ LET sh   == IF nan THEN R_shuffle(NonFinite(arr), rng)
                 ELSE [a |-> NonFinite(arr), s |-> rng]
         old  == IF TailTmp \in DOMAIN files THEN files[TailTmp].payload ELSE << >>
     IN  /\ tail_tmp' = TailTmp
         /\ rng' = sh.s
         /\ h_tail' = h_tail \o sh.a
         /\ files' = [n \in DOMAIN files \cup {TailTmp} |->
                        IF n = TailTmp THEN [payload |-> old \o sh.a, tag |-> NoTag]
                        ELSE files[n]]
  /\ written' = Overlay(written, files')
  /\ pc' = "tail_budget"
  /\ UNCHANGED << cfgvars, disk, idx, gseq, itr, arr, chunks, tail_fin, wd, rd,
                  primed, pending, tbuf, susp, out, err, cleanup_err, warned, todo,
                  flipped, merged, prev >>

\* Line 190-193: charge the appended bytes; then skip a chunk without finite values.
TailBudget ==
  /\ pc = "tail_budget"
  /\ LET delta == Len(NonFinite(arr)) * F64_SIZE
     IN  /\ disk' = BudgetDisk(disk, delta)
         /\ IF BudgetRaises(disk, delta, max)
            THEN /\ err' = "MemoryError"
                 /\ pc' = "cleanup"
            ELSE /\ err' = err
                 /\ pc' = IF Finite(arr) = << >> THEN "fill" ELSE "chunk_write"
  /\ UNCHANGED << cfgvars, rng, idx, gseq, itr, arr, chunks, tail_tmp, tail_fin,
                  h_tail, files, wd, rd, primed, pending, tbuf, susp, out,
                  cleanup_err, warned, todo, flipped, merged,
                  written, prev >>

\* Line 198-203: the tie column of a chunk, and the generator state left.
TieColumn(tb, key, n, g, s) ==
  IF tb = "VALUE" THEN [a |-> key, s |-> s]
  ELSE IF tb = "INDEX" THEN [a |-> [i \in 1..n |-> (i - 1) + g], s |-> s]
  ELSE R_rand(s, n)

\* Line 197: the key column of a chunk.
KeyColumn(md, finite) == [i \in 1..Len(finite) |-> ieee_key(metric(md, finite)[i])]

\* Records numbered from 0 in every chunk, without the instance's counter.
BuildRecsLocalSeq(finite, key, tiecol, g) ==
  SortRecs([i \in 1..Len(finite) |->
             [val |-> finite[i], key |-> key[i], tie |-> tiecol[i], seq |-> i - 1]])

\* Lines 205-210: the records of a chunk, sorted.
BuildRecs(finite, key, tiecol, g) ==
  SortRecs([i \in 1..Len(finite) |->
             [val |-> finite[i], key |-> key[i], tie |-> tiecol[i],
              seq |-> (i - 1) + g]])

\* Lines 194-217: the overflow check, then the chunk's records are built,
\* sorted and written with their tag to c_<idx>.
ChunkWrite ==
  /\ pc = "chunk_write"
  /\ LET finite == Finite(arr)
         n      == Len(finite)
         key    == KeyColumn(mode, finite)
         tc     == TieColumn(tie, key, n, gseq, rng)
         rec    == BuildRecs(finite, key, tc.a, gseq)
         fname  == ChunkName(idx)
     IN  IF gseq + n > maxseq
         THEN /\ err' = "OverflowError"
              /\ pc' = "cleanup"
              /\ UNCHANGED << rng, gseq, files, written >>
         ELSE /\ rng' = tc.s
              /\ gseq' = gseq + n
              /\ files' = [m \in DOMAIN files \cup {fname} |->
                             IF m = fname THEN [payload |-> rec, tag |-> blake3(rec)]
                             ELSE files[m]]
              /\ written' = Overlay(written, files')
              /\ err' = err
              /\ pc' = "chunk_budget"
  /\ UNCHANGED << cfgvars, disk, idx, itr, arr, chunks, tail_tmp, tail_fin, h_tail,
                  wd, rd, primed, pending, tbuf, susp, out, cleanup_err, warned,
                  todo, flipped, merged, prev >>

\* Lines 218-220: charge the file's size, then track the file.
ChunkBudget ==
  /\ pc = "chunk_budget"
  /\ LET fname == ChunkName(idx)
         delta == FileSize(files, fname)
     IN  /\ disk' = BudgetDisk(disk, delta)
         /\ IF BudgetRaises(disk, delta, max)
            THEN /\ err' = "MemoryError"
                 /\ pc' = "cleanup"
                 /\ UNCHANGED << chunks, idx >>
            ELSE /\ err' = err
                 /\ chunks' = Append(chunks, fname)
                 /\ idx' = idx + 1
                 /\ pc' = "fill"
  /\ UNCHANGED << cfgvars, rng, gseq, itr, arr, tail_tmp, tail_fin, h_tail, files,
                  wd, rd, primed, pending, tbuf, susp, out, cleanup_err, warned,
                  todo, flipped, merged,
                  written, prev >>

\* Lines 222-228: seal the tail: append the tag, rename tail.tmp to tail.fin.
Seal ==
  /\ pc = "seal"
  /\ IF tail_tmp # None
     THEN /\ files' = [n \in (DOMAIN files \ {TailTmp}) \cup {TailFin} |->
                         IF n = TailFin
                         THEN [payload |-> files[TailTmp].payload, tag |-> blake3(h_tail)]
                         ELSE files[n]]
          /\ written' = Overlay(written, files')
          /\ tail_fin' = TailFin
          /\ pc' = "seal_budget"
     ELSE /\ UNCHANGED << files, tail_fin, written >>
          /\ pc' = "merge"
  /\ UNCHANGED << cfgvars, rng, disk, idx, gseq, itr, arr, chunks, tail_tmp, h_tail,
                  wd, rd, primed, pending, tbuf, susp, out, err, cleanup_err, warned,
                  todo, flipped, merged, prev >>

\* Line 229: charge the tail's tag.
SealBudget ==
  /\ pc = "seal_budget"
  /\ disk' = BudgetDisk(disk, TAG_SIZE)
  /\ IF BudgetRaises(disk, TAG_SIZE, max)
     THEN /\ err' = "MemoryError"
          /\ pc' = "cleanup"
     ELSE /\ err' = err
          /\ pc' = "merge"
  /\ UNCHANGED << cfgvars, rng, idx, gseq, itr, arr, chunks, tail_tmp, tail_fin,
                  h_tail, files, wd, rd, primed, pending, tbuf, susp, out,
                  cleanup_err, warned, todo, flipped, merged,
                  written, prev >>

\* --------------------------------------------------- _reader and the merge
\* (OpenReaderStoredTag: a reader that takes the stored tag for the computed one.)
\* _reader(path) up to its first record: the payload is hashed and copied.
\* (A chunk file holds at least one record and a tag, and a changed byte does
\* not change its size, so the branches for files of at most 16 bytes and for
\* payloads that are no multiple of the record size are never taken; a payload
\* below the window size and a windowed one are read and hashed alike.)
OpenReaderStoredTag(fs, name) ==
  [recs |-> fs[name].payload, pos |-> 1, tag |-> fs[name].tag, live |-> TRUE]

OpenReader(fs, name) ==
  [recs |-> fs[name].payload, pos |-> 1, tag |-> blake3(fs[name].payload), live |-> TRUE]

\* A reader that compares its tag whenever it is asked for a further record,
\* not only when it has none left.
TagMismatchEarly(r, ended, fs, name) == primed /\ r.tag # fs[name].tag

\* Lines 451-459: past its last record, the reader r of the file name compares
\* the tag it computed with the tag stored in the file.
TagMismatch(r, ended, fs, name) == ended /\ r.tag # fs[name].tag

\* heapq.merge's order on its entries [key(value), order, ...].
HeadLess(r, i, j) ==
  LET a == r[i].recs[r[i].pos]
      b == r[j].recs[r[j].pos]
  IN  RecLess(a, b) \/ (~RecLess(b, a) /\ i < j)

\* Lines 231-236, one pull of the consumer: the first pull opens every reader;
\* a later one first advances the reader whose record was yielded last, and a
\* reader at its end compares its tag (lines 451-459).  Then the least head is
\* yielded; with no reader left the merged stream has ended.
MergeNext ==
  /\ pc = "merge"
  /\ LET p     == pending
         np    == rd[p].pos + 1
         ended == primed /\ np > Len(rd[p].recs)
         rd1   == IF ~primed THEN [i \in 1..Len(chunks) |-> OpenReader(files, chunks[i])]
                  ELSE [rd EXCEPT ![p].pos = np, ![p].live = ~ended]
         bad   == integrity /\ TagMismatch(rd[p], ended, files, chunks[p])
         live  == { i \in DOMAIN rd1 : rd1[i].live }
         least == CHOOSE i \in live : \A j \in live \ {i} : HeadLess(rd1, i, j)
     IN  /\ rd' = rd1
         /\ primed' = TRUE
         /\ IF bad /\ ~soft
            THEN /\ err' = "IOError"
                 /\ pc' = "cleanup"
                 /\ susp' = FALSE
                 /\ UNCHANGED << out, pending, warned, merged >>
            ELSE /\ err' = err
                 /\ warned' = IF bad THEN warned \cup {"integrity"} ELSE warned
                 /\ IF live = {}
                    THEN /\ pc' = "tail_emit"
                         /\ susp' = FALSE
                         /\ pending' = 0
                         /\ out' = out
                         /\ merged' = merged
                    ELSE /\ pc' = "merge"
                         /\ susp' = TRUE
                         /\ pending' = least
                         /\ merged' = Append(merged, rd1[least].recs[rd1[least].pos])
                         /\ out' = Append(out, rd1[least].recs[rd1[least].pos].val)
  /\ UNCHANGED << cfgvars, rng, disk, idx, gseq, itr, arr, chunks, tail_tmp, tail_fin,
                  h_tail, files, wd, tbuf, cleanup_err, todo, flipped,
                  written, prev >>

\* ------------------------------------------------------------ _tail_emit
RECURSIVE Reservoir(_, _, _, _, _, _)
\* Lines 338-354: the first cap elements fill the reservoir; each later one
\* replaces slot m when the draw m = randint(cap + processed + 1) is below cap.
Reservoir(view, k, buf, processed, s, cap) ==
  IF k > Len(view) THEN [a |-> buf, s |-> s]
  ELSE IF Len(buf) < cap
  THEN Reservoir(view, k + 1, Append(buf, view[k]), processed, s, cap)
  ELSE LET d == R_below(s, cap + processed + 1)
           b == IF d.res < cap THEN [buf EXCEPT ![d.res + 1] = view[k]] ELSE buf
       IN  Reservoir(view, k + 1, b, processed + 1, d.s, cap)

\* _tail_emit(path, rng): the values it will yield, in order, and the state of
\* the generator: a payload up to TAIL_WHOLE_MAX is loaded whole and shuffled,
\* a larger one is sampled into the reservoir, which is shuffled.
TailValues(payload, s) ==
  IF Len(payload) * F64_SIZE <= TAIL_WHOLE_MAX
  THEN R_shuffle(payload, s)
  ELSE LET r == Reservoir(payload, 1, << >>, 0, s, CAP_BYTES \div F64_SIZE)
       IN  R_shuffle(r.a, r.s)

\* Lines 238-239 and _tail_emit up to its first yield.
TailEmit ==
  /\ pc = "tail_emit"
  /\ IF tail_fin = None
     THEN /\ pc' = "cleanup"
          /\ UNCHANGED << tbuf, rng >>
     ELSE LET tv == TailValues(files[TailFin].payload, rng)
          IN  /\ tbuf' = tv.a
              /\ rng' = tv.s
              /\ pc' = "tail_yield"
  /\ UNCHANGED << cfgvars, disk, idx, gseq, itr, arr, chunks, tail_tmp, tail_fin,
                  h_tail, files, wd, rd, primed, pending, susp, out, err,
                  cleanup_err, warned, todo, flipped, merged,
                  written, prev >>

\* yield from arr_to_yield / buf[:fill]: one value per pull; past the last one
\* the generator runs to its end.
TailYield ==
  /\ pc = "tail_yield"
  /\ IF tbuf = << >>
     THEN /\ pc' = "cleanup"
          /\ susp' = FALSE
          /\ UNCHANGED << out, tbuf >>
     ELSE /\ out' = Append(out, Head(tbuf))
          /\ tbuf' = Tail(tbuf)
          /\ susp' = TRUE
          /\ pc' = pc
  /\ UNCHANGED << cfgvars, rng, disk, idx, gseq, itr, arr, chunks, tail_tmp, tail_fin,
                  h_tail, files, wd, rd, primed, pending, err, cleanup_err, warned,
                  todo, flipped, merged,
                  written, prev >>

\* The consumer closes the generator while it is suspended at a yield:
\* GeneratorExit is raised there and the finally block runs.
Close ==
  /\ susp
  /\ pc \in {"merge", "tail_yield"}
  /\ susp' = FALSE
  /\ err' = "GeneratorExit"
  /\ pc' = "cleanup"
  /\ UNCHANGED << cfgvars, rng, disk, idx, gseq, itr, arr, chunks, tail_tmp, tail_fin,
                  h_tail, files, wd, rd, primed, pending, tbuf, out, cleanup_err,
                  warned, todo, flipped, merged,
                  written, prev >>

\* ------------------------------------------------------------- finally
\* Lines 242-248: the paths the finally block will remove.
PathsToRemove(cs, tt, tf, fs) ==
  { cs[i] : i \in DOMAIN cs }
    \cup (IF tf # None /\ tf \in DOMAIN fs THEN {tf} ELSE {})
    \cup (IF tt # None /\ tt \in DOMAIN fs /\ (tf = None \/ tt # tf) THEN {tt} ELSE {})

CleanupBegin ==
  /\ pc = "cleanup"
  /\ todo' = PathsToRemove(chunks, tail_tmp, tail_fin, files)
  /\ pc' = "cleanup_rm"
  /\ UNCHANGED << cfgvars, rng, disk, idx, gseq, itr, arr, chunks, tail_tmp, tail_fin,
                  h_tail, files, wd, rd, primed, pending, tbuf, susp, out, err,
                  cleanup_err, warned, flipped, merged,
                  written, prev >>

\* Lines 250-257, one iteration over set(paths_to_remove), in any order: the
\* file is removed and its size credited; _budget may raise MemoryError, which
\* is no OSError and leaves the finally block.
CleanupRemove ==
  /\ pc = "cleanup_rm"
  /\ \E p \in todo :
       IF p \in DOMAIN files
       THEN LET size == FileSize(files, p)
            IN  /\ files' = [n \in DOMAIN files \ {p} |-> files[n]]
                /\ disk' = BudgetDisk(disk, 0 - size)
                /\ IF BudgetRaises(disk, 0 - size, max)
                   THEN /\ cleanup_err' = "MemoryError"
                        /\ pc' = "exited"
                        /\ todo' = todo
                   ELSE /\ cleanup_err' = cleanup_err
                        /\ pc' = pc
                        /\ todo' = todo \ {p}
       ELSE /\ todo' = todo \ {p}
            /\ UNCHANGED << files, disk, cleanup_err, pc >>
  /\ UNCHANGED << cfgvars, rng, idx, gseq, itr, arr, chunks, tail_tmp, tail_fin,
                  h_tail, wd, rd, primed, pending, tbuf, susp, out, err, warned,
                  flipped, merged,
                  written, prev >>

\* Lines 259-264: remove the working directory when it is empty, else warn.
CleanupDir ==
  /\ pc = "cleanup_rm"
  /\ todo = {}
  /\ IF wd /\ DOMAIN files = {}
     THEN /\ wd' = FALSE
          /\ warned' = warned
     ELSE /\ wd' = wd
          /\ warned' = warned \cup {"dir_not_empty"}
  /\ pc' = "exited"
  /\ UNCHANGED << cfgvars, rng, disk, idx, gseq, itr, arr, chunks, tail_tmp, tail_fin,
                  h_tail, files, rd, primed, pending, tbuf, susp, out, err,
                  cleanup_err, todo, flipped, merged,
                  written, prev >>

\* ------------------------------------------------------------ environment
\* One field of one record of a chunk file with one bit changed.
FlipField(r, f, k) ==
  IF f = "val" THEN [r EXCEPT !.val = Xor(@, 2 ^ k)]
  ELSE IF f = "key" THEN [r EXCEPT !.key = Xor(@, 2 ^ k)]
  ELSE IF f = "tie" THEN [r EXCEPT !.tie = Xor(@, 2 ^ k)]
  ELSE [r EXCEPT !.seq = Xor(@, 2 ^ k)]

\* The bits of a field that may be changed.
FlipBits == 0..5

\* A byte of a sealed chunk file changes before the file is read: a byte of
\* its record payload or a byte of its tag.
Corrupt ==
  /\ pc = "merge"
  /\ ~primed
  /\ ~flipped
  /\ \E c \in DOMAIN chunks :
       LET f == files[chunks[c]]
       IN  \E j \in 0..Len(f.payload) :
             IF j = 0
             THEN files' = [files EXCEPT ![chunks[c]].tag = << "blake3", f.payload, "flipped" >>]
             ELSE \E fld \in {"val", "key", "tie", "seq"}, k \in FlipBits :
                    files' = [files EXCEPT ![chunks[c]].payload[j] = FlipField(@, fld, k)]
  /\ flipped' = TRUE
  /\ UNCHANGED << cfgvars, rng, disk, idx, gseq, itr, arr, chunks, tail_tmp, tail_fin,
                  h_tail, wd, pc, rd, primed, pending, tbuf, susp, out, err,
                  cleanup_err, warned, todo, merged,
                  written, prev >>

\* ---------------------------------------------------------- specifications
Next ==
  \/ FillChunk
  \/ TailAppend
  \/ TailBudget
  \/ ChunkWrite
  \/ ChunkBudget
  \/ Seal
  \/ SealBudget
  \/ MergeNext
  \/ TailEmit
  \/ TailYield
  \/ Close
  \/ CleanupBegin
  \/ CleanupRemove
  \/ CleanupDir

NextFlip == Next \/ Corrupt

Vals == { NEG1, NEG0, POS0, POS1, PINF, QNAN }
Modes == { "STRICT", "CURVED" }
Ties == { "VALUE", "INDEX", "RANDOM", "SHUFFLE" }

\* Every mode, tie-break and chunk size over every input up to MaxLen, with a
\* quota no run exhausts and without nan_shuffle.
Init ==
  InitWith(SeqsUpTo(Vals, MaxLen), 1..2, Modes, Ties, {FALSE}, {1024}, {TRUE}, {FALSE}, {1})

Spec == Init /\ [][Next]_vars

\* ------------------------------------------------------------------ claims
Count(s, v) == Cardinality({ i \in DOMAIN s : s[i] = v })

\* The run ended by exhausting the stream: no error was raised and the
\* consumer did not close the generator.
Drained == pc = "exited" /\ err = "none" /\ cleanup_err = "none"

\* C1: when stream_sort is drained to its end, the values yielded are a
\* permutation of the input X: as many values, and each bit pattern as often.
C1_DrainedOutputIsPermutation ==
  Drained => /\ Len(out) = Len(X)
             /\ \A v \in Vals : Count(out, v) = Count(X, v)

\* C2: the finite values are yielded in non-decreasing numeric order.
C2_FiniteNonDecreasing ==
  \A i, j \in DOMAIN out :
    (i < j /\ isfinite(out[i]) /\ isfinite(out[j])) => Num(out[i]) <= Num(out[j])

\* C3: ieee_key preserves numeric order on finite values: in STRICT mode, where
\* a record's key is ieee_key of its value, any two records a, b of a chunk
\* satisfy  a.val < b.val  <=>  a.key < b.key.
C3_KeyPreservesOrder ==
  mode = "STRICT" =>
    \A n \in DOMAIN files : n[1] = "c" =>
      \A i, j \in DOMAIN files[n].payload :
        LET a == files[n].payload[i]
            b == files[n].payload[j]
        IN  (Num(a.val) < Num(b.val)) <=> (a.key < b.key)

\* C4: every -0.0 is yielded before every +0.0.
C4_NegZeroBeforePosZero ==
  \A i, j \in DOMAIN out : i < j => ~(out[i] = POS0 /\ out[j] = NEG0)

\* The input is exhausted and every scratch file is sealed: no tail.tmp is
\* left, and the tail, when there is one, is tail.fin with its tag.
AllSealed ==
  /\ itr = << >>
  /\ TailTmp \notin DOMAIN files
  /\ tail_tmp # None => tail_fin = TailFin
  /\ \A n \in DOMAIN files : files[n].tag # NoTag

\* C5: stream_sort yields nothing before the input is exhausted and every
\* chunk and the tail are sealed (each yield happens in such a state), and
\* once a non-finite value was yielded no finite value follows.
C5_TwoPhases ==
  /\ (susp \/ out # << >>) => (itr = << >> /\ TailTmp \notin DOMAIN files
                                /\ (tail_tmp # None => tail_fin = TailFin))
  /\ susp => AllSealed
  /\ \A i, j \in DOMAIN out : (i < j /\ ~isfinite(out[i])) => ~isfinite(out[j])

\* C5's case: a finite value was yielded and a non-finite one after it, from an
\* input of several chunks.
C5_Witness ==
  /\ Len(chunks) >= 2
  /\ \E i, j \in DOMAIN out : i < j /\ isfinite(out[i]) /\ ~isfinite(out[j])

\* C9: with chunk files unmodified, the records delivered by the merge are in
\* lexicographic (key, tie, seq) order: none is followed by a smaller one.
C9_MergedInOrder ==
  ~flipped =>
    \A i, j \in DOMAIN merged : i < j => ~RecLess(merged[j], merged[i])

\* C9's case: the merge of at least two chunks delivered records that tie on
\* (key, tie) across chunks.
C9_Witness ==
  /\ ~flipped
  /\ Len(chunks) >= 2
  /\ \E i, j \in DOMAIN merged :
       /\ i < j
       /\ merged[i].key = merged[j].key
       /\ merged[i].tie = merged[j].tie
       /\ merged[i].seq < merged[j].seq

\* Small quotas: a few finite and non-finite values, up to one more than
\* maxseq allows, under quotas that one or two chunk files exhaust, with and
\* without nan_shuffle.
QuotaVals == { POS1, QNAN }
InitQuota ==
  InitWith(SeqsUpTo(QuotaVals, MaxLen + 1), 1..2, {"STRICT"}, {"VALUE"}, BOOLEAN,
           {40, 100, 1024}, {TRUE}, {FALSE}, {1})

SpecQuota == InitQuota /\ [][Next]_vars

\* A byte of a chunk file may change between its writing and its reading.
FlipVals == { NEG1, POS1, QNAN }
InitFlip ==
  InitWith(SeqsUpTo(FlipVals, MaxLen), 1..2, {"STRICT"}, {"VALUE"}, {FALSE},
           {1024}, BOOLEAN, BOOLEAN, {1})

SpecFlip == InitFlip /\ [][NextFlip]_vars

RECURSIVE SumSizes(_, _)
SumSizes(fs, names) ==
  IF names = {} THEN 0
  ELSE LET n == CHOOSE m \in names : TRUE
       IN  FileSize(fs, n) + SumSizes(fs, names \ {n})

\* The bytes held by the scratch files of the working directory.
ScratchBytes == SumSizes(files, DOMAIN files)

\* C6: the scratch files never hold more than max bytes.
C6_ScratchWithinQuota == ScratchBytes <= max

\* C7: when stream_sort has exited, no scratch file is left and the working
\* directory is removed.
C7_ExitLeavesNothing == pc = "exited" => (DOMAIN files = {} /\ ~wd)

\* C8: the finally block never raises: it visits every tracked file and ends.
C8_CleanupNeverRaises == cleanup_err = "none" /\ (pc = "exited" => todo = {})

\* C10: with integrity checking on, after a byte of a chunk file was changed a
\* consumer that pulls to the end gets the integrity error (soft-verify off),
\* or a warning and a completed stream (soft-verify on).
C10_ChangedByteIsReported ==
  (flipped /\ integrity /\ pc = "exited" /\ err # "GeneratorExit") =>
    IF soft THEN err = "none" /\ "integrity" \in warned
    ELSE err = "IOError"

\* C10's case: a byte of a record was changed, values of the changed chunk
\* were yielded, and the run ended with the integrity error.
C10_Witness ==
  /\ flipped /\ integrity /\ ~soft
  /\ pc = "exited"
  /\ err = "IOError"
  /\ out # << >>

\* ------------------------------------------------------- a second run
\* A second stream_sort on the instance of the first run: its fields stay as
\* the first run left them.
XiSortInitReused(sd) == [rng |-> rng, disk |-> disk, idx |-> idx, gseq |-> gseq]

\* XiSort.__init__ (lines 132-136): the mutable fields of a fresh instance.
XiSortInit(sd) == [rng |-> R_init(sd), disk |-> 0, idx |-> 0, gseq |-> 0]

\* What a caller keeps of a run that has exited: the bytes written under each
\* file name, the values yielded, whether the chunk phase was completed and
\* whether the stream was drained.
Snapshot(k) ==
  [kind |-> k, written |-> written, out |-> out, sealed |-> primed,
   drained |-> (err = "none" /\ cleanup_err = "none")]

\* The caller constructs a fresh XiSort with the configuration and seed of the
\* run that has exited and calls stream_sort on the input inp: the new
\* instance has its own, empty working directory (mkdtemp, line 135) and the
\* locals of stream_sort are as at its start (lines 160-163).
StartRun(k, inp) ==
  /\ pc = "exited"
  /\ prev = NoRun
  /\ prev' = Snapshot(k)
  /\ LET inst == XiSortInit(seed)
     IN  /\ rng' = inst.rng
         /\ disk' = inst.disk
         /\ idx' = inst.idx
         /\ gseq' = inst.gseq
  /\ X' = inp
  /\ itr' = inp
  /\ arr' = << >>
  /\ chunks' = << >>
  /\ tail_tmp' = None
  /\ tail_fin' = None
  /\ h_tail' = << >>
  /\ files' = << >>
  /\ wd' = TRUE
  /\ pc' = "fill"
  /\ rd' = << >>
  /\ primed' = FALSE
  /\ pending' = 0
  /\ tbuf' = << >>
  /\ susp' = FALSE
  /\ out' = << >>
  /\ err' = "none"
  /\ cleanup_err' = "none"
  /\ warned' = {}
  /\ todo' = {}
  /\ flipped' = FALSE
  /\ merged' = << >>
  /\ written' = << >>
  /\ UNCHANGED << chunk_size, mode, tie, nan, max, integrity, soft, seed >>

\* The same input is sorted a second time.
Rerun == StartRun("rerun", X)

NextDet == Next \/ Rerun

\* Two runs per configuration: every tie-break, with and without nan_shuffle,
\* two seeds, over inputs with equal finite values (so that the tie column
\* decides) and distinct non-finite ones (so that shuffles show).
DetVals == { POS1, PINF, QNAN }
Seeds == { 1, 2 }
InitDet ==
  InitWith(SeqsUpTo(DetVals, MaxLen), 1..2, {"STRICT"}, Ties, BOOLEAN, {1024},
           {TRUE}, {FALSE}, Seeds)

SpecDet == InitDet /\ [][NextDet]_vars

IsPrefix(s, t) == Len(s) <= Len(t) /\ SubSeq(t, 1, Len(s)) = s

Resort ==
  /\ err = "none"
  /\ cleanup_err = "none"
  /\ StartRun("resort", out)

NextIdem == Next \/ Resort

\* VALUE tie-break, both modes, with and without nan_shuffle, over finite
\* values and distinct non-finite ones.
IdemVals == { NEG1, POS0, POS1, PINF, NINF, QNAN }
InitIdem ==
  InitWith(SeqsUpTo(IdemVals, MaxLen), 1..2, Modes, {"VALUE"}, BOOLEAN, {1024},
           {TRUE}, {FALSE}, Seeds)

SpecIdem == InitIdem /\ [][NextIdem]_vars

\* C12: under the VALUE tie-break, sorting the full output Y of a drained run
\* again (the input X of the second run is Y) yields exactly Y.
C12_SortedAgainIsSame ==
  (prev.kind = "resort" /\ Drained) => out = X

\* Inputs of up to one value more than maxseq admits, over distinct finite
\* values and a non-finite one, under the tie-breaks that draw no random
\* numbers.
SeqVals == { NEG1, POS0, POS1, QNAN }
InitSeq ==
  InitWith(SeqsUpTo(SeqVals, MaxLen + 1), 1..2, {"STRICT"}, {"VALUE", "INDEX"},
           {FALSE}, {1024}, {TRUE}, {FALSE}, {1})

SpecSeq == InitSeq /\ [][Next]_vars

\* The chunk files written so far, and the input pulled so far.
ChunkNames == { n \in DOMAIN written : n[1] = "c" }
Consumed == SubSeq(X, 1, Len(X) - Len(itr))

\* C13: over all chunk files an instance has written, the record with seq s
\* holds the (s+1)-th finite value of the input, so earlier finite inputs have
\* smaller seq; no two records share a seq and the records are as many as the
\* counter says, so the seq values are 0 .. gseq-1 without a gap; a later
\* chunk holds greater seq values than an earlier one; and, unless the counter
\* overflowed, every finite value pulled so far has its record once its chunk
\* is written.
C13_SeqInInputOrder ==
  LET fin  == Finite(X)
      recs == UNION { { << n, i >> : i \in DOMAIN written[n].payload } : n \in ChunkNames }
      R(p) == written[p[1]].payload[p[2]]
  IN  /\ \A p \in recs : /\ R(p).seq < gseq
                         /\ R(p).seq + 1 <= Len(fin)
                         /\ R(p).val = fin[R(p).seq + 1]
      /\ \A p, q \in recs : p # q => R(p).seq # R(q).seq
      /\ Cardinality(recs) = gseq
      /\ \A p, q \in recs : p[1][2] < q[1][2] => R(p).seq < R(q).seq
      /\ (pc \in {"fill", "seal", "seal_budget", "merge"} /\ err = "none")
            => gseq = Len(Finite(Consumed))

\* C13's case: two chunks of finite values were written with a chunk of a
\* non-finite value alone between them.
C13_Witness ==
  /\ chunk_size = 1
  /\ pc = "merge"
  /\ Len(chunks) >= 2
  /\ gseq >= 2
  /\ \E i, j, k \in DOMAIN X :
       i < j /\ j < k /\ isfinite(X[i]) /\ ~isfinite(X[j]) /\ isfinite(X[k])

\* C14: the tag-mismatch error of a chunk is raised no earlier than when the
\* merge asks that chunk's reader for a record past its last one: when the
\* error is raised, the reader that raised it has handed out every record of
\* its chunk, and the merge has delivered each of them (their values were
\* yielded) before.
C14_TagComparedAtEnd ==
  err = "IOError" =>
    LET r == rd[pending]
    IN  /\ ~r.live
        /\ r.pos = Len(r.recs) + 1
        /\ \A i \in DOMAIN r.recs : \E j \in DOMAIN merged : merged[j] = r.recs[i]
        /\ Len(out) = Len(merged)
        /\ Len(out) >= Len(r.recs)

\* C14's case: the changed chunk holds two records, another chunk exists, and
\* the error was raised after both records' values were yielded.
C14_Witness ==
  /\ flipped
  /\ err = "IOError"
  /\ Len(chunks) >= 2
  /\ Len(rd[pending].recs) >= 2
  /\ Len(out) >= 2

=============================================================================
